---- MODULE Spec2Model ----
(***************************************************************************)
(* The pytest unit-test template shared/tdd/test-templates/                *)
(* pytest-unit.template.py, as the Python compiler and the pytest          *)
(* collector see it: a module body of three imports and four classes,      *)
(* each class a body of methods, each method a body of statements.         *)
(*                                                                         *)
(* The document is transcribed statement by statement (line numbers are    *)
(* those of the source).  The model walks it in source order, binding      *)
(* names and collecting classes, tests and fixtures, and then sets up the  *)
(* fixtures of any collected test the way pytest does.                     *)
(***************************************************************************)
EXTENDS Naturals, Sequences, FiniteSets

VARIABLES pc, pos, globals, classes, request, stack, cache, calls, err

vars == <<pc, pos, globals, classes, request, stack, cache, calls, err>>

(***************************************************************************)
(* Syntax nodes.  binds: the names the statement itself stores;            *)
(* loads: the names its own expressions read (attribute and method names   *)
(* are not names: in pytest.raises only pytest is read).                   *)
(***************************************************************************)
Node(kind, name, line, last, params, decorators, binds, loads, body) ==
    [kind |-> kind, name |-> name, line |-> line, last |-> last,
     params |-> params, decorators |-> decorators, binds |-> binds,
     loads |-> loads, body |-> body]

Import(line, names) == Node("Import", "", line, line, <<>>, {}, names, {}, <<>>)

\* Simple statements: first and last line, the names stored, the names read.
Expr(line, last, loads) ==
    Node("Expr", "", line, last, <<>>, {}, {}, loads, <<>>)

Assign(line, last, binds, loads) ==
    Node("Assign", "", line, last, <<>>, {}, binds, loads, <<>>)

AssertStmt(line, last, loads) ==
    Node("Assert", "", line, last, <<>>, {}, {}, loads, <<>>)

Return(line, last, loads) ==
    Node("Return", "", line, last, <<>>, {}, {}, loads, <<>>)

Pass(line) == Node("Pass", "", line, line, <<>>, {}, {}, {}, <<>>)

\* with ... as name: the header stores and reads; the statements under it
\* are its body.
With(line, last, binds, loads, body) ==
    Node("With", "", line, last, <<>>, {}, binds, loads, body)

\* A decorator: its dotted path as written and, for a call, its first
\* argument when that is a string literal ("" otherwise).
Decorator(path, arg) == [path |-> path, arg |-> arg]

FunctionDef(name, line, last, params, decorators, body) ==
    Node("FunctionDef", name, line, last, params, decorators, {name}, {}, body)

AsyncFunctionDef(name, line, last, params, decorators, body) ==
    Node("AsyncFunctionDef", name, line, last, params, decorators, {name}, {}, body)

ClassDef(name, line, last, body) ==
    Node("ClassDef", name, line, last, <<>>, {}, {name}, {}, body)

(***************************************************************************)
(* The document, lines 1-193.                                              *)
(***************************************************************************)
import_pytest == Import(1, {"pytest"})

import_unittest_mock == Import(2, {"Mock", "patch", "MagicMock"})

\* Mutant: the import also brings in the function under test.
import_module_name_Wider ==
    Import(3, {"ClassOrFunctionName", "function_under_test"})

import_module_name == Import(3, {"ClassOrFunctionName"})

setup_method ==
    FunctionDef("setup_method", 9, 16,
        <<"self">>,
        {},
        << Expr(10, 10, {}),
           Assign(12, 16, {}, {"self"}) >>)

teardown_method ==
    FunctionDef("teardown_method", 18, 21,
        <<"self">>,
        {},
        << Expr(19, 19, {}),
           Pass(21) >>)

test_should_expected_behavior_when_valid_input ==
    FunctionDef("test_should_expected_behavior_when_valid_input", 23, 34,
        <<"self">>,
        {},
        << Expr(24, 24, {}),
           Assign(26, 26, {"input_data"}, {"self"}),
           Assign(29, 29, {"result"}, {"function_under_test", "input_data"}),
           AssertStmt(32, 32, {"result"}),
           AssertStmt(33, 33, {"result"}),
           AssertStmt(34, 34, {"result", "input_data"}) >>)

test_should_raise_error_when_invalid_input ==
    FunctionDef("test_should_raise_error_when_invalid_input", 36, 43,
        <<"self">>,
        {},
        << Expr(37, 37, {}),
           Assign(39, 39, {"invalid_input"}, {}),
           With(42, 43, {}, {"pytest", "ValueError"},
              << Expr(43, 43, {"function_under_test", "invalid_input"}) >>) >>)

test_should_handle_edge_case_when_empty_input ==
    FunctionDef("test_should_handle_edge_case_when_empty_input", 45, 54,
        <<"self">>,
        {},
        << Expr(46, 46, {}),
           Assign(48, 48, {"empty_input"}, {}),
           Assign(51, 51, {"result"}, {"function_under_test", "empty_input"}),
           AssertStmt(54, 54, {"result", "expected_default_value"}) >>)

test_should_calculate_correctly_when_given_values ==
    FunctionDef("test_should_calculate_correctly_when_given_values", 62, 70,
        <<"self", "input_value", "expected_output">>,
        {Decorator("pytest.mark.parametrize", "input_value,expected_output")},
        << Expr(65, 65, {}),
           Assign(67, 67, {"result"}, {"calculate_function", "input_value"}),
           AssertStmt(70, 70, {"result", "expected_output"}) >>)

TestClassOrFunctionName ==
    ClassDef("TestClassOrFunctionName", 6, 70,
        << Expr(7, 7, {}),
           setup_method,
           teardown_method,
           test_should_expected_behavior_when_valid_input,
           test_should_raise_error_when_invalid_input,
           test_should_handle_edge_case_when_empty_input,
           test_should_calculate_correctly_when_given_values >>)

\* Mutant: the database fixture asks for the service fixture.
mock_database_Cyclic ==
    FunctionDef("mock_database", 77, 82,
        <<"self", "service_instance">>,
        {Decorator("pytest.fixture", "")},
        << Expr(78, 78, {}),
           Assign(79, 79, {"db"}, {"Mock"}),
           Assign(80, 80, {}, {"db"}),
           Assign(81, 81, {}, {"db"}),
           Return(82, 82, {"db"}) >>)

mock_database ==
    FunctionDef("mock_database", 77, 82,
        <<"self">>,
        {Decorator("pytest.fixture", "")},
        << Expr(78, 78, {}),
           Assign(79, 79, {"db"}, {"Mock"}),
           Assign(80, 80, {}, {"db"}),
           Assign(81, 81, {}, {"db"}),
           Return(82, 82, {"db"}) >>)

service_instance ==
    FunctionDef("service_instance", 85, 87,
        <<"self", "mock_database">>,
        {Decorator("pytest.fixture", "")},
        << Expr(86, 86, {}),
           Return(87, 87, {"ServiceClass", "mock_database"}) >>)

test_should_fetch_data_when_id_provided ==
    FunctionDef("test_should_fetch_data_when_id_provided", 89, 104,
        <<"self", "service_instance", "mock_database">>,
        {},
        << Expr(92, 92, {}),
           Assign(94, 94, {"entity_id"}, {}),
           Assign(97, 97, {"result"}, {"service_instance", "entity_id"}),
           AssertStmt(100, 100, {"result"}),
           AssertStmt(101, 101, {"result", "entity_id"}),
           Expr(102, 104, {"mock_database", "entity_id"}) >>)

test_should_create_entity_when_valid_data ==
    FunctionDef("test_should_create_entity_when_valid_data", 106, 118,
        <<"self", "service_instance", "mock_database">>,
        {},
        << Expr(109, 109, {}),
           Assign(111, 111, {"new_entity"}, {}),
           Assign(114, 114, {"result"}, {"service_instance", "new_entity"}),
           AssertStmt(117, 117, {"result"}),
           Expr(118, 118, {"mock_database"}) >>)

TestClassWithDependencies ==
    ClassDef("TestClassWithDependencies", 73, 118,
        << Expr(74, 74, {}),
           mock_database,
           service_instance,
           test_should_fetch_data_when_id_provided,
           test_should_create_entity_when_valid_data >>)

test_should_fetch_data_when_api_call_succeeds ==
    AsyncFunctionDef("test_should_fetch_data_when_api_call_succeeds", 125, 138,
        <<"self">>,
        {Decorator("pytest.mark.asyncio", "")},
        << Expr(126, 126, {}),
           Assign(128, 128, {"mock_response"}, {}),
           With(130, 138, {"mock_api"}, {"patch"},
              << Assign(131, 131, {}, {"mock_api", "mock_response"}),
                 Assign(134, 134, {"result"}, {"async_function_under_test"}),
                 AssertStmt(137, 137, {"result", "mock_response"}),
                 Expr(138, 138, {"mock_api"}) >>) >>)

\* Mutant: the second async test without its marker.
test_should_handle_error_when_api_call_fails_Unmarked ==
    AsyncFunctionDef("test_should_handle_error_when_api_call_fails", 141, 149,
        <<"self">>,
        {},
        << Expr(142, 142, {}),
           With(144, 149, {"mock_api"}, {"patch"},
              << Assign(145, 145, {}, {"mock_api", "ConnectionError"}),
                 With(148, 149, {}, {"pytest", "ConnectionError"},
                    << Expr(149, 149, {"async_function_under_test"}) >>) >>) >>)

test_should_handle_error_when_api_call_fails ==
    AsyncFunctionDef("test_should_handle_error_when_api_call_fails", 141, 149,
        <<"self">>,
        {Decorator("pytest.mark.asyncio", "")},
        << Expr(142, 142, {}),
           With(144, 149, {"mock_api"}, {"patch"},
              << Assign(145, 145, {}, {"mock_api", "ConnectionError"}),
                 With(148, 149, {}, {"pytest", "ConnectionError"},
                    << Expr(149, 149, {"async_function_under_test"}) >>) >>) >>)

TestAsyncOperations ==
    ClassDef("TestAsyncOperations", 121, 149,
        << Expr(122, 122, {}),
           test_should_fetch_data_when_api_call_succeeds,
           test_should_handle_error_when_api_call_fails >>)

test_should_create_entity_when_valid_input ==
    FunctionDef("test_should_create_entity_when_valid_input", 155, 168,
        <<"self">>,
        {},
        << Expr(156, 156, {}),
           Assign(158, 158, {"title"}, {}),
           Assign(159, 159, {"content"}, {}),
           Assign(162, 162, {"entity"}, {"DomainEntity", "title", "content"}),
           AssertStmt(165, 165, {"entity"}),
           AssertStmt(166, 166, {"entity", "title"}),
           AssertStmt(167, 167, {"entity", "content"}),
           AssertStmt(168, 168, {"entity"}) >>)

test_should_raise_domain_error_when_invalid_business_rule ==
    FunctionDef("test_should_raise_domain_error_when_invalid_business_rule", 170, 178,
        <<"self">>,
        {},
        << Expr(171, 171, {}),
           Assign(173, 173, {"entity"}, {"DomainEntity"}),
           With(177, 178, {}, {"pytest", "DomainError"},
              << Expr(178, 178, {"entity"}) >>) >>)

test_should_apply_business_logic_when_method_called ==
    FunctionDef("test_should_apply_business_logic_when_method_called", 180, 193,
        <<"self">>,
        {},
        << Expr(181, 181, {}),
           Assign(183, 183, {"entity"}, {"DomainEntity"}),
           Expr(184, 184, {"entity"}),
           Expr(187, 187, {"entity"}),
           AssertStmt(190, 190, {"entity"}),
           AssertStmt(191, 191, {"entity"}),
           AssertStmt(192, 192, {"len", "entity"}),
           AssertStmt(193, 193, {"isinstance", "entity", "EntityPublishedEvent"}) >>)

\* Mutant: the domain-entity section with its docstring only.
TestDomainEntity_NoTests ==
    ClassDef("TestDomainEntity", 152, 193, << Expr(153, 153, {}) >>)

TestDomainEntity ==
    ClassDef("TestDomainEntity", 152, 193,
        << Expr(153, 153, {}),
           test_should_create_entity_when_valid_input,
           test_should_raise_domain_error_when_invalid_business_rule,
           test_should_apply_business_logic_when_method_called >>)

Document ==
    << import_pytest,
       import_unittest_mock,
       import_module_name,
       TestClassOrFunctionName,
       TestClassWithDependencies,
       TestAsyncOperations,
       TestDomainEntity >>

(***************************************************************************)
(* Text helpers: identifiers and decorator paths are strings, classified   *)
(* by what is written in them.                                             *)
(***************************************************************************)
StartsWith(s, prefix) ==
    /\ Len(s) >= Len(prefix)
    /\ SubSeq(s, 1, Len(prefix)) = prefix

RECURSIVE Find(_, _, _)
\* The first index >= i at which the one-character string ch is in s, or
\* Len(s) + 1.
Find(s, ch, i) ==
    IF i > Len(s) THEN Len(s) + 1
    ELSE IF SubSeq(s, i, i) = ch THEN i
    ELSE Find(s, ch, i + 1)

RECURSIVE Split(_, _)
\* str.split(ch) of a string with no blanks, as a set of parts.
Split(s, ch) ==
    LET i == Find(s, ch, 1) IN
    IF i > Len(s) THEN {s}
    ELSE {SubSeq(s, 1, i - 1)} \cup Split(SubSeq(s, i + 1, Len(s)), ch)

\* The name a dotted path reads: pytest in pytest.mark.asyncio.
RootName(path) == SubSeq(path, 1, Find(path, ".", 1) - 1)

Range(f) == {f[i] : i \in DOMAIN f}

RECURSIVE Flatten(_, _)
\* The statements of a body in source order, each with its nesting depth
\* (0 module, 1 class body, 2 function body, deeper inside a with).
Flatten(body, depth) ==
    IF body = <<>> THEN <<>>
    ELSE <<[node |-> Head(body), depth |-> depth]>>
            \o Flatten(Head(body).body, depth + 1)
            \o Flatten(Tail(body), depth)

Nodes == Flatten(Document, 0)

DefKinds == {"FunctionDef", "AsyncFunctionDef"}

StmtKinds == {"Expr", "Assign", "Assert", "With", "Return", "Pass"}

(***************************************************************************)
(* Collection.  The walk keeps module scope (globals) and, per class, the  *)
(* functions found in it; each function keeps its header and the names     *)
(* its body stores and reads.                                              *)
(***************************************************************************)
NoRequest == [cls |-> 0, test |-> ""]

Init ==
    /\ pc = "scan"
    /\ pos = 1
    /\ globals = {}
    /\ classes = <<>>
    /\ request = NoRequest
    /\ stack = <<>>
    /\ cache = {}
    /\ calls = <<>>
    /\ err = ""

Current == Nodes[pos]

Scanning == pc = "scan" /\ pos <= Len(Nodes)

FuncEntry(n) ==
    [name |-> n.name, line |-> n.line, async |-> n.kind = "AsyncFunctionDef",
     params |-> n.params, decorators |-> n.decorators,
     stores |-> {}, loads |-> {}]

\* import x / from m import x: binds the imported names at module scope.
ScanImport ==
    /\ Scanning
    /\ Current.depth = 0
    /\ Current.node.kind = "Import"
    /\ globals' = globals \cup Current.node.binds
    /\ pos' = pos + 1
    /\ UNCHANGED <<pc, classes, request, stack, cache, calls, err>>

\* class C: binds C at module scope and opens its body.
ScanClass ==
    /\ Scanning
    /\ Current.depth = 0
    /\ Current.node.kind = "ClassDef"
    /\ globals' = globals \cup Current.node.binds
    /\ classes' = Append(classes,
                         [name |-> Current.node.name, line |-> Current.node.line,
                          funcs |-> <<>>])
    /\ pos' = pos + 1
    /\ UNCHANGED <<pc, request, stack, cache, calls, err>>

\* The docstring expression of a class body: binds and reads nothing.
ScanClassExpr ==
    /\ Scanning
    /\ Current.depth = 1
    /\ Current.node.kind = "Expr"
    /\ pos' = pos + 1
    /\ UNCHANGED <<pc, globals, classes, request, stack, cache, calls, err>>

\* def / async def in a class body: a member of the class being scanned.
ScanDef ==
    /\ Scanning
    /\ Current.depth = 1
    /\ Current.node.kind \in DefKinds
    /\ classes' = [classes EXCEPT ![Len(classes)].funcs =
                        Append(@, FuncEntry(Current.node))]
    /\ pos' = pos + 1
    /\ UNCHANGED <<pc, globals, request, stack, cache, calls, err>>

\* A statement of a function body: its stores and reads belong to the
\* function being scanned (with-bodies are not scopes).
ScanStmt ==
    /\ Scanning
    /\ Current.depth >= 2
    /\ Current.node.kind \in StmtKinds
    /\ LET c == Len(classes)
           f == Len(classes[c].funcs)
       IN classes' = [classes EXCEPT
                        ![c].funcs[f].stores = @ \cup Current.node.binds,
                        ![c].funcs[f].loads = @ \cup Current.node.loads]
    /\ pos' = pos + 1
    /\ UNCHANGED <<pc, globals, request, stack, cache, calls, err>>

\* End of the module body.
Finish ==
    /\ pc = "scan"
    /\ pos = Len(Nodes) + 1
    /\ pc' = "collected"
    /\ UNCHANGED <<pos, globals, classes, request, stack, cache, calls, err>>

Scan == ScanImport \/ ScanClass \/ ScanClassExpr \/ ScanDef \/ ScanStmt \/ Finish

(***************************************************************************)
(* What pytest collects from the scanned classes.                          *)
(***************************************************************************)
HasDecorator(f, path) == \E d \in f.decorators : d.path = path

\* python_classes = Test*
IsTestClass(c) == StartsWith(c.name, "Test")

IsFixture(f) == HasDecorator(f, "pytest.fixture")

\* python_functions = test*; a fixture function is not collected as a test.
IsTest(f) == StartsWith(f.name, "test") /\ ~IsFixture(f)

HasAsyncioMarker(f) == HasDecorator(f, "pytest.mark.asyncio")

Sections == SelectSeq(classes, IsTestClass)

Tests(c) == SelectSeq(c.funcs, IsTest)

Fixtures(c) == {f \in Range(c.funcs) : IsFixture(f)}

FixtureNames(c) == {f.name : f \in Fixtures(c)}

\* The argument names a method asks for: its parameters without the bound
\* first one (self).
ArgNames(f) == Tail(f.params)

\* The argument names @pytest.mark.parametrize supplies directly.
Parametrized(f) ==
    UNION {Split(d.arg, ",") :
             d \in {e \in f.decorators : e.path = "pytest.mark.parametrize"}}

SectionNamed(name) == CHOOSE c \in Range(classes) : c.name = name

FuncNamed(c, name) == CHOOSE f \in Range(c.funcs) : f.name = name

(***************************************************************************)
(* Names: what the document binds and what it reads.                       *)
(***************************************************************************)
AllFuncs == UNION {Range(c.funcs) : c \in Range(classes)}

\* The names of a function's own scope: its parameters and what it stores.
Locals(f) == Range(f.params) \cup f.stores

\* Every name the scanned part of the document binds, in any scope:
\* module scope, class scope (the methods) and function scope.
Bound ==
    globals \cup {f.name : f \in AllFuncs} \cup UNION {Locals(f) : f \in AllFuncs}

\* The names read from outside the scope that reads them: a function's
\* reads that are not its locals, and the names its decorators read.
Referenced ==
    UNION {(f.loads \ Locals(f)) \cup {RootName(d.path) : d \in f.decorators} :
             f \in AllFuncs}

\* The builtin names the document reads (lines 42, 145, 148, 192, 193).
Builtins == {"ValueError", "ConnectionError", "len", "isinstance"}

\* The names a run of the document could not resolve.
Unresolved == Referenced \ (globals \cup Builtins)

\* The names whose read fails when the body of f runs: read from outside
\* f's scope and found neither at module scope nor among the builtins.
\* (The bodies are straight-line code: every statement runs until the
\* first one that fails.)
Undefined(f) == (f.loads \ Locals(f)) \ (globals \cup Builtins)

(***************************************************************************)
(* Fixture setup of one collected test, as pytest runs it: the argument    *)
(* names of the test are resolved in order; a fixture's own argument       *)
(* names are resolved before the fixture function is called; a value is    *)
(* cached once computed.                                                   *)
(***************************************************************************)
RequestedClass == classes[request.cls]

RequestedTest == FuncNamed(RequestedClass, request.test)

\* The argument names the frame on top still waits for, in order.
Pending ==
    IF stack = <<>>
    THEN LET t == RequestedTest
             Wanted(a) == a \notin cache /\ a \notin Parametrized(t)
         IN SelectSeq(ArgNames(t), Wanted)
    ELSE LET Wanted(a) == a \notin cache
         IN SelectSeq(ArgNames(FuncNamed(RequestedClass, Head(stack))), Wanted)

\* pytest runs setup_method, when the class has one, before anything the
\* test asks for.
XunitPending ==
    /\ \E f \in Range(RequestedClass.funcs) : f.name = "setup_method"
    /\ "setup_method" \notin Range(calls)

\* pytest picks a collected test and starts its setup.
Request ==
    /\ pc = "collected"
    /\ \E c \in 1..Len(classes) :
         /\ IsTestClass(classes[c])
         /\ \E t \in Range(Tests(classes[c])) :
              request' = [cls |-> c, test |-> t.name]
    /\ pc' = "setup"
    /\ stack' = <<>>
    /\ cache' = {}
    /\ calls' = <<>>
    /\ UNCHANGED <<pos, globals, classes, err>>

\* setup_method(self) is called on the test's instance.  What it leaves on
\* the instance (self.test_data, line 12) is read only by test bodies, which
\* are not part of setup, and is not kept in the state.
XunitSetup ==
    /\ pc = "setup"
    /\ XunitPending
    /\ LET f == FuncNamed(RequestedClass, "setup_method") IN
         /\ calls' = Append(calls, f.name)
         /\ IF Undefined(f) = {}
            THEN UNCHANGED <<pc, err>>
            ELSE pc' = "error" /\ err' = "NameError"
    /\ UNCHANGED <<pos, globals, classes, request, stack, cache>>

\* getfixturevalue(argname) for the next argument name: no fixture of that
\* name is a lookup error, one already being set up is a recursive
\* dependency, otherwise its setup starts.
Resolve ==
    /\ pc = "setup"
    /\ ~XunitPending
    /\ Pending # <<>>
    /\ LET a == Head(Pending) IN
         IF a \notin FixtureNames(RequestedClass)
         THEN /\ pc' = "error"
              /\ err' = "fixture not found"
              /\ UNCHANGED stack
         ELSE IF a \in Range(stack)
         THEN /\ pc' = "error"
              /\ err' = "recursive dependency"
              /\ UNCHANGED stack
         ELSE /\ stack' = <<a>> \o stack
              /\ UNCHANGED <<pc, err>>
    /\ UNCHANGED <<pos, globals, classes, request, cache, calls>>

\* All argument names of the fixture on top are there: the fixture function
\* is called.  Its value is cached when the body runs through; a read of a
\* name defined nowhere raises NameError and the setup fails with the
\* fixture still on the stack.
CallFixture ==
    /\ pc = "setup"
    /\ stack # <<>>
    /\ Pending = <<>>
    /\ LET f == FuncNamed(RequestedClass, Head(stack)) IN
         /\ calls' = Append(calls, f.name)
         /\ IF Undefined(f) = {}
            THEN /\ cache' = cache \cup {f.name}
                 /\ stack' = Tail(stack)
                 /\ UNCHANGED <<pc, err>>
            ELSE /\ pc' = "error"
                 /\ err' = "NameError"
                 /\ UNCHANGED <<stack, cache>>
    /\ UNCHANGED <<pos, globals, classes, request>>

\* All argument names of the test are there: the test can be called.
SetupDone ==
    /\ pc = "setup"
    /\ ~XunitPending
    /\ stack = <<>>
    /\ Pending = <<>>
    /\ pc' = "ready"
    /\ UNCHANGED <<pos, globals, classes, request, stack, cache, calls, err>>

\* The run of the test ends (teardown_method, where the class has one, is a
\* pass) and pytest is free to pick another test.
Teardown ==
    /\ pc \in {"ready", "error"}
    /\ pc' = "collected"
    /\ request' = NoRequest
    /\ stack' = <<>>
    /\ cache' = {}
    /\ calls' = <<>>
    /\ err' = ""
    /\ UNCHANGED <<pos, globals, classes>>

Setup == Request \/ XunitSetup \/ Resolve \/ CallFixture \/ SetupDone \/ Teardown

Next == Scan \/ Setup

Spec == Init /\ [][Next]_vars

(***************************************************************************)
(* C1                                                                      *)
(***************************************************************************)
SectionTitles ==
    << "TestClassOrFunctionName", "TestClassWithDependencies",
       "TestAsyncOperations", "TestDomainEntity" >>

\* C1: the document holds exactly four example sections (basic,
\* dependency-mocked, async, domain-entity: the four test classes, and no
\* other class), never more at any point of the walk, and each of the four
\* holds at least one test.
C1_FourSections ==
    /\ Len(classes) <= 4
    /\ pc # "scan" =>
         /\ Len(classes) = 4
         /\ Len(Sections) = 4
         /\ [i \in 1..4 |-> Sections[i].name] = SectionTitles
         /\ \A i \in 1..4 : Len(Tests(Sections[i])) >= 1

C1_Witness ==
    /\ pc = "collected"
    /\ Len(Sections) = 4
    /\ [i \in 1..4 |-> Len(Tests(Sections[i]))] = <<4, 2, 2, 3>>

(***************************************************************************)
(* C6                                                                      *)
(***************************************************************************)
ReferencedPlaceholders ==
    { "function_under_test", "calculate_function", "expected_default_value",
      "ServiceClass", "async_function_under_test", "DomainEntity",
      "DomainError", "EntityPublishedEvent" }

ClaimedPlaceholders == ReferencedPlaceholders \cup {"ClassOrFunctionName"}

\* The names the scanned part of the document binds by a construct of its
\* own, other than an import: class statements, def statements, parameters
\* and the names function bodies store.
DefinedInDocument ==
    {c.name : c \in Range(classes)} \cup {f.name : f \in AllFuncs}
        \cup UNION {Locals(f) : f \in AllFuncs}

\* C6 as claimed: none of the nine placeholder names is bound anywhere in
\* the document.
C6_Original == ClaimedPlaceholders \cap Bound = {}

\* C6 as amended: the eight placeholders the examples read are bound
\* nowhere in the document, and they are exactly the names it reads and
\* cannot resolve; ClassOrFunctionName is bound at module scope by the
\* import on line 3 (and only there: no class, def, parameter or assignment
\* binds it) and no example reads it.  The first three statements of the
\* module are the imports of lines 1-3, so pos > 3 says line 3 is scanned.
C6_PlaceholdersUnbound ==
    /\ ReferencedPlaceholders \cap Bound = {}
    /\ "ClassOrFunctionName" \notin Referenced
    /\ "ClassOrFunctionName" \notin DefinedInDocument
    /\ pos > 3 => "ClassOrFunctionName" \in globals
    /\ pc # "scan" => Unresolved = ReferencedPlaceholders

C6_Witness ==
    /\ pc = "collected"
    /\ Unresolved = ReferencedPlaceholders
    /\ "ClassOrFunctionName" \in globals
    /\ Cardinality(ReferencedPlaceholders \cap Referenced) = 8

(***************************************************************************)
(* C9                                                                      *)
(***************************************************************************)
MockedTitle == "TestClassWithDependencies"

\* The fixture dependency relation of a class: <<f, a>> when fixture f
\* names a as a parameter.
FixtureDeps(c) ==
    UNION {{<<f.name, a>> : a \in Range(ArgNames(f))} : f \in Fixtures(c)}

RECURSIVE ReachableFrom(_, _, _)
\* The names reachable from the set seen in at most n more steps of deps.
ReachableFrom(deps, seen, n) ==
    IF n = 0 THEN seen
    ELSE ReachableFrom(deps,
            seen \cup {p[2] : p \in {q \in deps : q[1] \in seen}}, n - 1)

Acyclic(deps) ==
    \A p \in deps : p[1] \notin ReachableFrom(deps, {p[2]}, Cardinality(deps))

\* Setup steps left at most: two per fixture not yet cached, less the
\* fixtures already being set up.
SetupMeasure ==
    2 * Cardinality(FixtureNames(RequestedClass) \ cache) - Len(stack)

LookupErrors == {"fixture not found", "recursive dependency"}

C9_Static ==
    pc # "scan" =>
      LET c == SectionNamed(MockedTitle) IN
        /\ \A f \in Range(Tests(c)) \cup Fixtures(c) :
             Range(ArgNames(f)) \subseteq FixtureNames(c)
        /\ FixtureDeps(c) = {<<"service_instance", "mock_database">>}
        /\ Acyclic(FixtureDeps(c))

C9_Setup ==
    (request.cls # 0 /\ RequestedClass.name = MockedTitle) =>
        /\ err \notin LookupErrors
        /\ Len(stack) <= Cardinality(FixtureNames(RequestedClass))
        /\ \A i, j \in 1..Len(stack) : stack[i] = stack[j] => i = j
        /\ Range(stack) \cup cache \subseteq FixtureNames(RequestedClass)
        /\ pc = "setup" => ENABLED (Resolve \/ CallFixture \/ SetupDone)
        /\ pc # "setup" =>
             /\ {"service_instance", "mock_database"} \subseteq Range(calls)
             /\ "mock_database" \in cache

C9_Progress ==
    (pc = "setup" /\ pc' = "setup" /\ RequestedClass.name = MockedTitle) =>
        /\ SetupMeasure' < SetupMeasure
        /\ SetupMeasure' >= 0

\* C9: in the dependency-mocked section every parameter a test or a
\* fixture names is a fixture of that section, the one dependency is
\* service_instance -> mock_database and the relation is acyclic; the
\* setup of each of its tests never ends in a lookup error (a missing
\* fixture or a recursive dependency), is never stuck, and every step of it
\* uses up a bounded measure, so resolution terminates: both fixtures are
\* found and called, mock_database first.
C9_FixturesResolve ==
    /\ [](C9_Static /\ C9_Setup)
    /\ [][C9_Progress]_vars

\* Both fixtures have been found and called in dependency order.  (The call
\* of service_instance then fails on the placeholder ServiceClass, line 87:
\* an error of the fixture's body, not of its resolution.)
C9_Witness ==
    /\ pc = "error"
    /\ RequestedClass.name = MockedTitle
    /\ request.test = "test_should_fetch_data_when_id_provided"
    /\ calls = <<"mock_database", "service_instance">>
    /\ cache = {"mock_database"}
    /\ err = "NameError"

(***************************************************************************)
(* C10                                                                     *)
(***************************************************************************)
AsyncTitle == "TestAsyncOperations"

\* C10: at every point of the walk, a function the document declares is an
\* async def exactly when it carries the asyncio marker, and a test is
\* async exactly when it is in the async section; at the end that section
\* holds tests and every one of them is async and marked.
C10_AsyncMarker ==
    /\ \A c \in Range(classes) : \A f \in Range(c.funcs) :
         /\ f.async <=> HasAsyncioMarker(f)
         /\ IsTest(f) => (f.async <=> c.name = AsyncTitle)
         /\ f.async => IsTest(f)
    /\ pc # "scan" => Tests(SectionNamed(AsyncTitle)) # <<>>

C10_Witness ==
    /\ pc = "collected"
    /\ LET ts == Tests(SectionNamed(AsyncTitle)) IN
         /\ Len(ts) = 2
         /\ \A i \in 1..2 : ts[i].async /\ HasAsyncioMarker(ts[i])
    /\ Cardinality({f \in AllFuncs : IsTest(f) /\ ~f.async}) = 9

====
